---- MODULE Spec2Model ----
(***************************************************************************)
(* NoiseMonitoring_Server: the ingress gateway (socketio-server.js), the   *)
(* durable queue it shares with the batch ingester, and the batch ingester *)
(* (data-ingest-service.js), as one state machine.                         *)
(*                                                                         *)
(* Every JavaScript `await` is an interleaving point: an async function    *)
(* runs synchronously up to its next await, so one action of the model is  *)
(* the code between two awaits of one handler.                             *)
(***************************************************************************)
EXTENDS Integers, Sequences, FiniteSets, TLC

\* ------------------------------------------------------------ constants

\* config.batch.bufferSize of the gateway (100 in the source), scaled down.
BUFFER_SIZE == 2
\* config.batch.size of the ingester (150 in the source), scaled down.
BATCH_SIZE == 2
\* The default of the series endpoint's limit (1000 in the source), scaled
\* down.
DEFAULT_LIMIT == 2

\* Device ids that frames and identify messages may carry, the sockets of
\* the gateway, and the id the gateway makes up for a socket whose first
\* /save carries no deviceId: `ESP32_${socket.id.substring(0, 8)}`.
DeviceIds == {"A", "B"}
Sockets == {"s1", "s2"}
SynthId(s) == IF s = "s1" THEN "ESP32_s1" ELSE "ESP32_s2"
Nodes == DeviceIds \cup {SynthId(s) : s \in Sockets}
\* data.deviceId of a frame that carries none (undefined).
NoId == "undefined"

\* ------------------------------------------------------------ bounds

\* Readings the queue-side environment of SpecIngest may RPUSH.
MaxPush == 3
\* Bulk inserts that may fail (wholly or partially) in one behaviour.
MaxInsertFail == 1
\* flushBatch calls of timer callbacks that may run at once for one node.
MaxTimerFlush == 1
\* Frames (/save, data) the devices may send in one behaviour of SpecGateway.
MaxFrames == 2
\* /save frames the device may send in one behaviour of Spec.
MaxSaves == 2
\* identify messages in one behaviour.
MaxIdentify == 1
\* Durable appends (pipeline.exec) that may fail in one behaviour.
MaxExecFail == 1
\* identify messages in one behaviour of SpecRegistry.
MaxReidentify == 2
\* POST /api/command requests in one behaviour.
MaxCommands == 1
\* GET requests (sync, series) in one behaviour.
MaxQueries == 1
\* The largest seq of a document in the store contents SpecQuery starts from.
MaxSeq == 3

\* Kills of the ingester process.
MaxRestart == 1

\* ------------------------------------------------------------ state

VARIABLES
  sockets,        \* per socket: conn, identified, nodeId, handlers, idTimer
  connectedNodes, \* this.connectedNodes, a Map: entries in insertion order
  nodeBuffers,    \* this.nodeBuffers, a Map: nodeId -> Seq(Reading)
  inflight,       \* pipeline.exec() calls awaiting their reply, oldest first
  live,           \* Readings broadcast as data:live
  announced,      \* node:connected / node:disconnected broadcasts, per node
  frames,         \* /save frames received on node sockets
  unhandled,      \* promise rejections of the gateway that nothing handles
  queue,          \* Redis lists queue:node:<nodeId>: [Nodes -> Seq(entry)]
  clock,          \* per device, the number of Readings accepted so far
  counters,       \* Mongo counters collection: [Nodes -> Nat], 0 = no document
  records,        \* Mongo timeseries collection: a set of documents
  totalRecords,   \* Redis metrics:<nodeId>.totalRecords
  processQueues,  \* this.processQueues of the ingester (keys only)
  flushTimers,    \* this.flushTimers: "none" | "armed" | "fired" per node
  strayTimers,    \* armed timers no longer referenced by this.flushTimers
  loops,          \* per node, processNodeQueue calls that have not returned
  loopPc,         \* processNodeQueue: "off" | "llen" | "flush" | "sleep"
  flushes,        \* running flushBatch calls: [Nodes -> [FlushIds -> flush]]
  errorLog,       \* Readings named by a console.error of the ingester
  response,       \* the last reply of the gateway's REST API
  emitted,        \* frames the REST API emitted to device sockets, in order
  env             \* what is left of the environment's budgets

ingestVars == <<counters, records, totalRecords, processQueues, flushTimers,
                strayTimers, loops, loopPc, flushes, errorLog>>
gatewayVars == <<sockets, connectedNodes, nodeBuffers, inflight, live,
                 announced, frames, unhandled>>
restVars == <<response, emitted>>
vars == <<sockets, connectedNodes, nodeBuffers, inflight, live, announced,
          frames, queue, clock, counters, records, totalRecords, processQueues,
          flushTimers, strayTimers, loops, loopPc, flushes, errorLog,
          response, emitted, unhandled, env>>

\* ------------------------------------------------------------ helpers

Min(a, b) == IF a <= b THEN a ELSE b

Range(s) == {s[i] : i \in 1..Len(s)}

\* A Reading as the gateway builds it (handleESP32Data / handleNodeData).
Reading(nodeId, ts, payload, meta) ==
  [nodeId |-> nodeId, ts |-> ts, payload |-> payload, meta |-> meta]

\* JSON.stringify(reading): the queue holds texts, not Readings, and a member
\* whose value is undefined (meta.rawDeviceId of a frame without deviceId) is
\* left out of the text.
Stringify(reading) ==
  [json |->
     IF "rawDeviceId" \in DOMAIN reading.meta /\ reading.meta.rawDeviceId = NoId
       THEN [reading EXCEPT !.meta = [source |-> reading.meta.source]]
       ELSE reading]

\* JSON.parse(item) of a queue entry.
Parse(item) == item.json

\* A list entry that is not the text of a JSON value, and the test JSON.parse
\* makes: it returns for a JSON text and throws a SyntaxError otherwise.
Malformed == [text |-> "{"]

IsJson(item) == "json" \in DOMAIN item

\* ------------------------------------------------------------ ingester

\* The flushBatch calls that may run at once for a node: the loop's own
\* (processNodeQueue awaits it) and those of timer callbacks.
LoopFlush == 0
TimerFlushIds == 1..MaxTimerFlush
FlushIds == {LoopFlush} \cup TimerFlushIds

IdleFlush == [pc |-> "idle", left |-> 0, batch |-> <<>>, seqBase |-> 0]

\* The flush slot a firing timer's callback takes.
FreeTimerFlush(n) ==
  CHOOSE f \in TimerFlushIds :
    /\ flushes[n][f].pc = "idle"
    /\ \A h \in TimerFlushIds : flushes[n][h].pc = "idle" => f <= h

\* flushBatch has returned (normally or through its catch); what its caller
\* does next: the loop goes on to its next iteration, a timer callback runs
\* this.flushTimers.delete(nodeId) (line 122), which forgets a newer armed
\* timer without clearing it.
Returned(n, f, timers, stray) ==
  /\ flushes' = [flushes EXCEPT ![n][f] = IdleFlush]
  /\ IF f = LoopFlush
       THEN /\ loopPc' = [loopPc EXCEPT ![n] = "llen"]
            /\ flushTimers' = timers
            /\ strayTimers' = stray
       ELSE /\ loopPc' = loopPc
            /\ flushTimers' = [timers EXCEPT ![n] = "none"]
            /\ strayTimers' =
                 IF timers[n] = "armed"
                   THEN [stray EXCEPT ![n] = @ + 1]
                   ELSE stray

\* A scan without the test of line 86: every key found gets a loop.
ScanEveryKey ==
  LET found == {n \in Nodes : Len(queue[n]) > 0}
  IN /\ found # {}
     /\ processQueues' = processQueues \cup found
     /\ loops' = [n \in Nodes |-> IF n \in found THEN loops[n] + 1
                                                 ELSE loops[n]]
     /\ loopPc' = [n \in Nodes |-> IF n \in found THEN "llen" ELSE loopPc[n]]
     /\ UNCHANGED <<gatewayVars, restVars,
                    queue, clock, counters, records, totalRecords,
                    flushTimers, strayTimers, flushes, errorLog, env>>

\* startQueueMonitoring: one tick of the 1 s scan. KEYS lists the non-empty
\* queues; every node not in processQueues gets a processing loop.
Scan ==
  LET found == {n \in Nodes : Len(queue[n]) > 0 /\ n \notin processQueues}
  IN /\ found # {}
     /\ processQueues' = processQueues \cup found
     /\ loops' = [n \in Nodes |-> IF n \in found THEN loops[n] + 1
                                                 ELSE loops[n]]
     /\ loopPc' = [n \in Nodes |-> IF n \in found THEN "llen" ELSE loopPc[n]]
     /\ UNCHANGED <<gatewayVars, restVars,
                    queue, clock, counters, records, totalRecords,
                    flushTimers, strayTimers, flushes, errorLog, env>>

\* processNodeQueue with line 108 left out: the loop ends on an empty queue
\* and keeps its processQueues marker.
LoopLlenKeepsMarker(n) ==
  /\ loopPc[n] = "llen"
  /\ LET queueLength == Len(queue[n])
     IN IF queueLength = 0
          THEN /\ loops' = [loops EXCEPT ![n] = @ - 1]
               /\ loopPc' = [loopPc EXCEPT ![n] = "off"]
               /\ UNCHANGED <<processQueues, flushTimers, flushes>>
          ELSE IF queueLength >= BATCH_SIZE
            THEN /\ flushes' = [flushes EXCEPT ![n][LoopFlush] =
                                  [IdleFlush EXCEPT !.pc = "llen"]]
                 /\ loopPc' = [loopPc EXCEPT ![n] = "flush"]
                 /\ UNCHANGED <<processQueues, flushTimers, loops>>
            ELSE /\ flushTimers' =
                      IF flushTimers[n] = "none"
                        THEN [flushTimers EXCEPT ![n] = "armed"]
                        ELSE flushTimers
                 /\ loopPc' = [loopPc EXCEPT ![n] = "sleep"]
                 /\ UNCHANGED <<processQueues, flushes, loops>>
  /\ UNCHANGED <<gatewayVars, restVars,
                 queue, clock, counters, records, totalRecords,
                 strayTimers, errorLog, env>>

\* processNodeQueue, one iteration from the LLEN reply to the next await.
LoopLlen(n) ==
  /\ loopPc[n] = "llen"
  /\ LET queueLength == Len(queue[n])
     IN IF queueLength = 0
          THEN /\ processQueues' = processQueues \ {n}
               /\ loops' = [loops EXCEPT ![n] = @ - 1]
               /\ loopPc' = [loopPc EXCEPT ![n] = "off"]
               /\ UNCHANGED <<flushTimers, flushes>>
          ELSE IF queueLength >= BATCH_SIZE
            THEN /\ flushes' = [flushes EXCEPT ![n][LoopFlush] =
                                  [IdleFlush EXCEPT !.pc = "llen"]]
                 /\ loopPc' = [loopPc EXCEPT ![n] = "flush"]
                 /\ UNCHANGED <<processQueues, flushTimers, loops>>
            ELSE /\ flushTimers' =
                      IF flushTimers[n] = "none"
                        THEN [flushTimers EXCEPT ![n] = "armed"]
                        ELSE flushTimers
                 /\ loopPc' = [loopPc EXCEPT ![n] = "sleep"]
                 /\ UNCHANGED <<processQueues, flushes, loops>>
  /\ UNCHANGED <<gatewayVars, restVars,
                 queue, clock, counters, records, totalRecords,
                 strayTimers, errorLog, env>>

\* The 500 ms sleep of the loop ends.
LoopWake(n) ==
  /\ loopPc[n] = "sleep"
  /\ loopPc' = [loopPc EXCEPT ![n] = "llen"]
  /\ UNCHANGED <<gatewayVars, restVars, loops,
                 queue, clock, counters, records, totalRecords,
                 processQueues, flushTimers, strayTimers, flushes, errorLog,
                 env>>

\* A flush timer fires: its callback calls flushBatch.
TimerFire(n) ==
  /\ flushTimers[n] = "armed" \/ strayTimers[n] > 0
  /\ \E f \in TimerFlushIds : flushes[n][f].pc = "idle"
  /\ \/ /\ flushTimers[n] = "armed"
        /\ flushTimers' = [flushTimers EXCEPT ![n] = "fired"]
        /\ UNCHANGED strayTimers
     \/ /\ strayTimers[n] > 0
        /\ strayTimers' = [strayTimers EXCEPT ![n] = @ - 1]
        /\ UNCHANGED flushTimers
  /\ flushes' = [flushes EXCEPT ![n][FreeTimerFlush(n)] =
                   [IdleFlush EXCEPT !.pc = "llen"]]
  /\ UNCHANGED <<gatewayVars, restVars, loops,
                 queue, clock, counters, records, totalRecords,
                 processQueues, loopPc, errorLog, env>>

\* flushBatch line 141-143: the LLEN reply.
FlushLlen(n, f) ==
  /\ flushes[n][f].pc = "llen"
  /\ LET batchSize == Min(BATCH_SIZE, Len(queue[n]))
     IN IF batchSize = 0
          THEN Returned(n, f, flushTimers, strayTimers)
          ELSE /\ flushes' = [flushes EXCEPT ![n][f] =
                                [@ EXCEPT !.pc = "pop", !.left = batchSize]]
               /\ UNCHANGED <<loopPc, flushTimers, strayTimers>>
  /\ UNCHANGED <<gatewayVars, restVars, loops,
                 queue, clock, counters, records, totalRecords,
                 processQueues, errorLog, env>>

\* flushBatch line 146-153: one LPOP reply; after the last one the batch is
\* complete and, unless empty, getNextSequence is called. JSON.parse of an
\* entry that is not JSON throws inside the try of flushBatch: the catch
\* (line 180-185) logs and flushBatch returns, the entries popped so far with
\* it.
FlushPop(n, f) ==
  /\ flushes[n][f].pc = "pop"
  /\ LET fl == flushes[n][f]
         batch == IF Len(queue[n]) > 0
                    THEN Append(fl.batch, Parse(Head(queue[n])))
                    ELSE fl.batch
     IN /\ queue' = [queue EXCEPT ![n] = IF Len(@) > 0 THEN Tail(@) ELSE @]
        /\ IF Len(queue[n]) > 0 /\ ~IsJson(Head(queue[n]))
             THEN /\ errorLog' = errorLog \cup Range(fl.batch)
                  /\ Returned(n, f, flushTimers, strayTimers)
             ELSE /\ errorLog' = errorLog
                  /\ IF fl.left > 1
                       THEN /\ flushes' = [flushes EXCEPT ![n][f] =
                                             [@ EXCEPT !.left = fl.left - 1,
                                                       !.batch = batch]]
                            /\ UNCHANGED <<loopPc, flushTimers, strayTimers>>
                       ELSE IF Len(batch) = 0
                         THEN Returned(n, f, flushTimers, strayTimers)
                         ELSE /\ flushes' =
                                   [flushes EXCEPT ![n][f] =
                                      [@ EXCEPT !.pc = "seq", !.left = 0,
                                                !.batch = batch]]
                              /\ UNCHANGED <<loopPc, flushTimers, strayTimers>>
  /\ UNCHANGED <<gatewayVars, restVars, loops,
                 clock, counters, records, totalRecords,
                 processQueues, env>>

\* getNextSequence: findOneAndUpdate with $inc and upsert, atomic in the store.
getNextSequence(n, count) == (counters[n] + count) - count + 1

FlushSeq(n, f) ==
  /\ flushes[n][f].pc = "seq"
  /\ LET count == Len(flushes[n][f].batch)
     IN /\ counters' = [counters EXCEPT ![n] = @ + count]
        /\ flushes' = [flushes EXCEPT ![n][f] =
                         [@ EXCEPT !.pc = "insert",
                                   !.seqBase = getNextSequence(n, count)]]
  /\ UNCHANGED <<gatewayVars, restVars, loops,
                 queue, clock, records, totalRecords,
                 processQueues, flushTimers, strayTimers, loopPc, errorLog,
                 env>>

\* flushBatch line 159-165: the documents of a batch.
Documents(fl) ==
  [i \in 1..Len(fl.batch) |->
     [nodeId |-> fl.batch[i].nodeId, seq |-> fl.seqBase + (i - 1),
      ts |-> fl.batch[i].ts, payload |-> fl.batch[i].payload,
      meta |-> fl.batch[i].meta]]

\* The unique index {nodeId: 1, seq: 1}.
KeyTaken(doc) == \E r \in records : r.nodeId = doc.nodeId /\ r.seq = doc.seq

\* A flushBatch that counts a batch in the metrics although its insertMany
\* failed.
FlushInsertCountsFailed(n, f) ==
  /\ flushes[n][f].pc = "insert"
  /\ LET fl == flushes[n][f]
         docs == Documents(fl)
         all == 1..Len(docs)
         free == {i \in all : ~KeyTaken(docs[i])}
     IN \E written \in SUBSET free :
          /\ written # all => env.insertFails > 0
          /\ records' = records \cup {docs[i] : i \in written}
          /\ flushes' = [flushes EXCEPT ![n][f] = [@ EXCEPT !.pc = "metrics"]]
          /\ IF written = all
               THEN /\ flushTimers' = [flushTimers EXCEPT ![n] = "none"]
                    /\ UNCHANGED <<errorLog, env>>
               ELSE /\ errorLog' = errorLog \cup
                                     {fl.batch[i] : i \in all \ written}
                    /\ env' = [env EXCEPT !.insertFails = @ - 1]
                    /\ UNCHANGED flushTimers
  /\ UNCHANGED <<gatewayVars, restVars, loops, loopPc, strayTimers,
                 queue, clock, counters, totalRecords, processQueues>>

\* flushBatch line 168-186: the reply of insertMany(documents, {ordered:
\* false}). `written` are the positions the store accepts; unless it accepts
\* all of them the call throws and the catch logs the error.
FlushInsert(n, f) ==
  /\ flushes[n][f].pc = "insert"
  /\ LET fl == flushes[n][f]
         docs == Documents(fl)
         all == 1..Len(docs)
         free == {i \in all : ~KeyTaken(docs[i])}
     IN \E written \in SUBSET free :
          /\ written # all => env.insertFails > 0
          /\ records' = records \cup {docs[i] : i \in written}
          /\ IF written = all
               THEN /\ flushes' = [flushes EXCEPT ![n][f] =
                                     [@ EXCEPT !.pc = "metrics"]]
                    /\ flushTimers' = [flushTimers EXCEPT ![n] = "none"]
                    /\ UNCHANGED <<loopPc, strayTimers, errorLog, env>>
               ELSE /\ errorLog' = errorLog \cup
                                     {fl.batch[i] : i \in all \ written}
                    /\ env' = [env EXCEPT !.insertFails = @ - 1]
                    /\ Returned(n, f, flushTimers, strayTimers)
  /\ UNCHANGED <<gatewayVars, restVars, loops,
                 queue, clock, counters, totalRecords,
                 processQueues>>

\* updateMetrics: HINCRBY totalRecords, HSET lastFlush, EXPIRE.
FlushMetrics(n, f) ==
  /\ flushes[n][f].pc = "metrics"
  /\ totalRecords' = [totalRecords EXCEPT ![n] = @ + Len(flushes[n][f].batch)]
  /\ Returned(n, f, flushTimers, strayTimers)
  /\ UNCHANGED <<gatewayVars, restVars, loops,
                 queue, clock, counters, records, processQueues,
                 errorLog, env>>

\* The gateway seen from the queue: k accepted Readings of one device are
\* appended to its list in acceptance order.
Rpush(n, k) ==
  /\ env.pushes >= k
  /\ queue' = [queue EXCEPT ![n] =
                 @ \o [i \in 1..k |->
                         Stringify(Reading(n, clock[n] + i, [current |-> 17],
                                           [source |-> "esp32",
                                            rawDeviceId |-> n]))]]
  /\ clock' = [clock EXCEPT ![n] = @ + k]
  /\ env' = [env EXCEPT !.pushes = @ - k]
  /\ UNCHANGED <<gatewayVars, ingestVars, restVars>>

\* Another producer of the list appends an entry that is not JSON; the
\* ingester meets it at line 147-149.
RpushMalformed(n) ==
  /\ env.malformed > 0
  /\ queue' = [queue EXCEPT ![n] = Append(@, Malformed)]
  /\ env' = [env EXCEPT !.malformed = @ - 1]
  /\ UNCHANGED <<gatewayVars, ingestVars, restVars, clock>>

\* A restart that inherits the processQueues markers of the killed process.
RestartKeepsMarkers ==
  /\ env.restarts > 0
  /\ \A n \in Nodes :
       /\ Len(queue[n]) = clock[n]
       /\ \A f \in FlushIds : flushes[n][f].batch = <<>>
  /\ flushTimers' = [n \in Nodes |-> "none"]
  /\ strayTimers' = [n \in Nodes |-> 0]
  /\ loops' = [n \in Nodes |-> 0]
  /\ loopPc' = [n \in Nodes |-> "off"]
  /\ flushes' = [n \in Nodes |-> [f \in FlushIds |-> IdleFlush]]
  /\ env' = [env EXCEPT !.restarts = @ - 1]
  /\ UNCHANGED <<gatewayVars, restVars, queue, clock, counters, records,
                 totalRecords, errorLog, processQueues>>

\* The ingester process is killed and started again: the constructor's fresh
\* Maps (line 29-30), no timer, no loop, no flushBatch call; the list, the
\* counters, the Records and the metrics are in the stores and stay. The kill
\* comes before the process has popped anything.
Restart ==
  /\ env.restarts > 0
  /\ \A n \in Nodes :
       /\ Len(queue[n]) = clock[n]
       /\ \A f \in FlushIds : flushes[n][f].batch = <<>>
  /\ processQueues' = {}
  /\ flushTimers' = [n \in Nodes |-> "none"]
  /\ strayTimers' = [n \in Nodes |-> 0]
  /\ loops' = [n \in Nodes |-> 0]
  /\ loopPc' = [n \in Nodes |-> "off"]
  /\ flushes' = [n \in Nodes |-> [f \in FlushIds |-> IdleFlush]]
  /\ env' = [env EXCEPT !.restarts = @ - 1]
  /\ UNCHANGED <<gatewayVars, restVars, queue, clock, counters, records,
                 totalRecords, errorLog>>

\* ------------------------------------------------------------ gateway

\* JavaScript Map operations; a Map is a function on the keys it holds.
Has(m, k) == k \in DOMAIN m
MapSet(m, k, v) == [x \in DOMAIN m \cup {k} |-> IF x = k THEN v ELSE m[x]]
MapDelete(m, k) == [x \in DOMAIN m \ {k} |-> m[x]]

\* this.connectedNodes keeps its entries in insertion order, and
\* handleDisconnection depends on it: a sequence of {nodeId, socketId,
\* metadata}. set() of a key it holds replaces the entry in place.
RegHas(reg, nodeId) == \E i \in 1..Len(reg) : reg[i].nodeId = nodeId

\* A registry that adds an entry for every set().
RegSetAppends(reg, entry) == Append(reg, entry)

RegSet(reg, entry) ==
  IF RegHas(reg, entry.nodeId)
    THEN [i \in 1..Len(reg) |->
            IF reg[i].nodeId = entry.nodeId THEN entry ELSE reg[i]]
    ELSE Append(reg, entry)

RegDelete(reg, nodeId) == SelectSeq(reg, LAMBDA e : e.nodeId # nodeId)

\* The gateway's state as one value: its handlers call each other, so they
\* are functions from gateway state to gateway state.
Gateway ==
  [sockets |-> sockets, connectedNodes |-> connectedNodes,
   nodeBuffers |-> nodeBuffers, inflight |-> inflight, live |-> live,
   announced |-> announced, clock |-> clock]

Becomes(g) ==
  /\ sockets' = g.sockets
  /\ connectedNodes' = g.connectedNodes
  /\ nodeBuffers' = g.nodeBuffers
  /\ inflight' = g.inflight
  /\ live' = g.live
  /\ announced' = g.announced
  /\ clock' = g.clock

NewSocket ==
  [conn |-> "new", identified |-> "undefined", nodeId |-> NoId,
   handlers |-> <<>>, idTimer |-> FALSE]

\* flushToRedis up to its `await pipeline.exec()`: the pipeline holds one
\* RPUSH per Reading in the buffer at the time of the call.
flushToRedis(g, nodeId, trigger) ==
  IF ~Has(g.nodeBuffers, nodeId) \/ Len(g.nodeBuffers[nodeId]) = 0
    THEN g
    ELSE [g EXCEPT !.inflight =
            Append(@, [nodeId |-> nodeId, trigger |-> trigger,
                       items |-> [i \in 1..Len(g.nodeBuffers[nodeId]) |->
                                    Stringify(g.nodeBuffers[nodeId][i])]])]

\* Lines 351-362 with the flush condition buffer.length > bufferSize.
AcceptAboveThreshold(g, nodeId, reading) ==
  LET buffer == Append(IF Has(g.nodeBuffers, nodeId)
                         THEN g.nodeBuffers[nodeId] ELSE <<>>, reading)
      g1 == [g EXCEPT !.clock[nodeId] = @ + 1,
                      !.nodeBuffers = MapSet(@, nodeId, buffer),
                      !.live = @ \cup {reading}]
  IN IF Len(buffer) > BUFFER_SIZE
       THEN flushToRedis(g1, nodeId, "full")
       ELSE g1

\* Lines 351-362 with the broadcast moved behind the awaited flush: a Reading
\* that fills the buffer is not yet broadcast when its flush starts.
AcceptBroadcastsAfterFlush(g, nodeId, reading) ==
  LET buffer == Append(IF Has(g.nodeBuffers, nodeId)
                         THEN g.nodeBuffers[nodeId] ELSE <<>>, reading)
      g1 == [g EXCEPT !.clock[nodeId] = @ + 1,
                      !.nodeBuffers = MapSet(@, nodeId, buffer)]
  IN IF Len(buffer) >= BUFFER_SIZE
       THEN flushToRedis(g1, nodeId, "full")
       ELSE [g1 EXCEPT !.live = @ \cup {reading}]

\* The common tail of handleESP32Data and handleNodeData (lines 351-362 and
\* 386-397): buffer append, data:live broadcast, flush when the buffer is full.
Accept(g, nodeId, reading) ==
  LET buffer == Append(IF Has(g.nodeBuffers, nodeId)
                         THEN g.nodeBuffers[nodeId] ELSE <<>>, reading)
      g1 == [g EXCEPT !.clock[nodeId] = @ + 1,
                      !.nodeBuffers = MapSet(@, nodeId, buffer),
                      !.live = @ \cup {reading}]
  IN IF Len(buffer) >= BUFFER_SIZE
       THEN flushToRedis(g1, nodeId, "full")
       ELSE g1

\* handleESP32Data, up to its first await.
handleESP32Data(g, nodeId, payload) ==
  LET deviceId == IF payload.deviceId # NoId THEN payload.deviceId ELSE nodeId
  IN Accept(g, deviceId,
            Reading(deviceId, g.clock[deviceId] + 1,
                    [current |-> payload.current],
                    [source |-> "esp32", rawDeviceId |-> payload.deviceId]))

\* handleNodeData, up to its first await.
handleNodeData(g, nodeId, rawPayload) ==
  Accept(g, nodeId,
         Reading(nodeId, g.clock[nodeId] + 1, rawPayload,
                 [source |-> "socketio"]))

\* handleNodeConnection for a usable id: the registry entry, a fresh empty
\* buffer, node:connected, one more listener each for /save, data and
\* bulk:data bound to finalNodeId, and socket.nodeId.
handleNodeConnection(g, s, finalNodeId, metadata) ==
  [g EXCEPT
     !.connectedNodes = RegSet(@, [nodeId |-> finalNodeId, socketId |-> s,
                                   metadata |-> metadata]),
     !.nodeBuffers = MapSet(@, finalNodeId, <<>>),
     !.announced[finalNodeId].connected = @ + 1,
     !.sockets[s].handlers = Append(@, finalNodeId),
     !.sockets[s].nodeId = finalNodeId]

\* handleDisconnection with line 452 left out: no flush of what is buffered.
handleDisconnectionNoFlush(g, s) ==
  LET reg == g.connectedNodes
      mine == {i \in 1..Len(reg) : reg[i].socketId = s}
  IN IF mine = {}
       THEN g
       ELSE LET first == CHOOSE i \in mine : \A j \in mine : i <= j
                nodeId == reg[first].nodeId
            IN [g EXCEPT !.connectedNodes = RegDelete(@, nodeId),
                         !.nodeBuffers = MapDelete(@, nodeId),
                         !.announced[nodeId].disconnected = @ + 1]

\* handleDisconnection: the first registry entry of this socket is flushed
\* (the flush is not awaited), removed and announced.
handleDisconnection(g, s) ==
  LET reg == g.connectedNodes
      mine == {i \in 1..Len(reg) : reg[i].socketId = s}
  IN IF mine = {}
       THEN g
       ELSE LET first == CHOOSE i \in mine : \A j \in mine : i <= j
                nodeId == reg[first].nodeId
                g1 == flushToRedis(g, nodeId, "disconnect")
            IN [g1 EXCEPT !.connectedNodes = RegDelete(@, nodeId),
                          !.nodeBuffers = MapDelete(@, nodeId),
                          !.announced[nodeId].disconnected = @ + 1]

\* The listeners that handleNodeConnection registered on the socket, called in
\* registration order; each holds the finalNodeId of its registration.
RECURSIVE RunSaveHandlers(_, _, _)
RunSaveHandlers(g, handlers, payload) ==
  IF handlers = <<>>
    THEN g
    ELSE RunSaveHandlers(handleESP32Data(g, Head(handlers), payload),
                         Tail(handlers), payload)

RECURSIVE RunDataHandlers(_, _, _)
RunDataHandlers(g, handlers, payload) ==
  IF handlers = <<>>
    THEN g
    ELSE RunDataHandlers(handleNodeData(g, Head(handlers), payload),
                         Tail(handlers), payload)

\* io.on('connection'): the 3 s identification timer starts.
Connect(s) ==
  /\ s \in env.sockets
  /\ sockets[s].conn = "new"
  /\ sockets' = [sockets EXCEPT ![s].conn = "open", ![s].idTimer = TRUE]
  /\ UNCHANGED <<connectedNodes, nodeBuffers, inflight, live, announced, frames,
                 queue, clock, ingestVars, restVars, unhandled, env>>

\* An identification timer that also closes the socket when it fires.
IdentifyTimeoutDisconnects(s) ==
  /\ sockets[s].conn = "open"
  /\ sockets[s].idTimer
  /\ sockets' = [sockets EXCEPT ![s].identified = "false",
                                ![s].conn = "closed", ![s].idTimer = FALSE]
  /\ UNCHANGED <<connectedNodes, nodeBuffers, inflight, live, announced, frames,
                 queue, clock, ingestVars, restVars, unhandled, env>>

\* The identification timer fires (line 226-230).
IdentifyTimeout(s) ==
  /\ sockets[s].conn = "open"
  /\ sockets[s].idTimer
  /\ sockets' = [sockets EXCEPT ![s].identified = "false", ![s].idTimer = FALSE]
  /\ UNCHANGED <<connectedNodes, nodeBuffers, inflight, live, announced, frames,
                 queue, clock, ingestVars, restVars, unhandled, env>>

\* socket.on('identify') with a usable id.
Identify(s, type, nodeId) ==
  /\ sockets[s].conn = "open"
  /\ env.identifies > 0
  /\ LET g1 == [Gateway EXCEPT !.sockets[s].identified = "true",
                               !.sockets[s].idTimer = FALSE]
     IN Becomes(IF type = "node"
                  THEN handleNodeConnection(g1, s, nodeId,
                                            [autoIdentified |-> FALSE])
                  ELSE g1)
  /\ env' = [env EXCEPT !.identifies = @ - 1]
  /\ UNCHANGED <<frames, queue, ingestVars, restVars, unhandled>>

\* A /save frame arrives: the listener of setupSocketIO (line 245-267), then
\* the listeners handleNodeConnection had registered before this frame, each
\* up to its first await. A listener registered while the frame is being
\* delivered is not called for it.
Save(s, payload) ==
  /\ sockets[s].conn = "open"
  /\ env.frames > 0
  /\ ~(sockets[s].identified = "true" /\ sockets[s].nodeId = NoId)
  /\ LET deviceId == IF payload.deviceId # NoId
                       THEN payload.deviceId ELSE SynthId(s)
         g1 == IF sockets[s].identified # "true"
                 THEN [handleNodeConnection(
                         Gateway, s, deviceId,
                         [type |-> "ESP32", autoIdentified |-> TRUE])
                       EXCEPT !.sockets[s].identified = "true",
                              !.sockets[s].idTimer = FALSE]
                 ELSE Gateway
         g2 == handleESP32Data(g1, g1.sockets[s].nodeId, payload)
     IN Becomes(RunSaveHandlers(g2, sockets[s].handlers, payload))
  /\ frames' = frames + 1
  /\ env' = [env EXCEPT !.frames = @ - 1]
  /\ UNCHANGED <<queue, ingestVars, restVars, unhandled>>

\* A /save frame arrives whose payload is a string that is not JSON. On a
\* socket not yet identified the listener of setupSocketIO clears the
\* identification timer and its JSON.parse (line 250) throws outside any try:
\* the async listener's promise rejects and nothing handles it. On an
\* identified node socket every listener reaches handleESP32Data, whose catch
\* (line 365-367) logs the SyntaxError of line 324.
SaveMalformed(s) ==
  /\ sockets[s].conn = "open"
  /\ env.malformed > 0
  /\ IF sockets[s].identified # "true"
       THEN /\ sockets' = [sockets EXCEPT ![s].idTimer = FALSE]
            /\ unhandled' = unhandled + 1
       ELSE UNCHANGED <<sockets, unhandled>>
  /\ frames' = frames + 1
  /\ env' = [env EXCEPT !.malformed = @ - 1]
  /\ UNCHANGED <<connectedNodes, nodeBuffers, inflight, live, announced,
                 queue, clock, ingestVars, restVars>>

\* A legacy data frame arrives on a node socket.
Data(s, payload) ==
  /\ sockets[s].conn = "open"
  /\ env.frames > 0
  /\ sockets[s].handlers # <<>>
  /\ Becomes(RunDataHandlers(Gateway, sockets[s].handlers, payload))
  /\ env' = [env EXCEPT !.frames = @ - 1]
  /\ UNCHANGED <<frames, queue, ingestVars, restVars, unhandled>>

\* socket.on('disconnect').
Disconnect(s) ==
  /\ sockets[s].conn = "open"
  /\ Becomes(handleDisconnection(
               [Gateway EXCEPT !.sockets[s].conn = "closed",
                               !.sockets[s].idTimer = FALSE], s))
  /\ UNCHANGED <<frames, queue, ingestVars, restVars, unhandled, env>>

\* flushToRedis with line 419 left out: the reply arrives and the buffer is
\* not cleared.
ExecResolvedKeepsBuffer ==
  /\ inflight # <<>>
  /\ LET p == Head(inflight)
     IN queue' = [queue EXCEPT ![p.nodeId] = @ \o p.items]
  /\ inflight' = Tail(inflight)
  /\ UNCHANGED <<sockets, connectedNodes, nodeBuffers, live, announced, frames,
                 clock, ingestVars, restVars, unhandled, env>>

\* flushToRedis after its await: the oldest pipeline's reply arrives, the
\* Readings are in the list and the device's buffer is replaced by [].
ExecResolved ==
  /\ inflight # <<>>
  /\ LET p == Head(inflight)
     IN /\ queue' = [queue EXCEPT ![p.nodeId] = @ \o p.items]
        /\ nodeBuffers' = MapSet(nodeBuffers, p.nodeId, <<>>)
  /\ inflight' = Tail(inflight)
  /\ UNCHANGED <<sockets, connectedNodes, live, announced, frames, clock,
                 ingestVars, restVars, unhandled, env>>

\* The durable append fails: exec() rejects, flushToRedis throws at its await
\* and nothing of it runs further. The frame handlers await it inside their
\* try; handleDisconnection calls it without await or catch (line 452).
ExecRejected ==
  /\ inflight # <<>>
  /\ env.execFails > 0
  /\ inflight' = Tail(inflight)
  /\ unhandled' = IF Head(inflight).trigger = "disconnect"
                    THEN unhandled + 1 ELSE unhandled
  /\ env' = [env EXCEPT !.execFails = @ - 1]
  /\ UNCHANGED <<sockets, connectedNodes, nodeBuffers, live, announced, frames,
                 queue, clock, ingestVars, restVars>>

\* ------------------------------------------------------------ REST API

\* A value that is undefined, null, false, 0 or "" is falsy; JSON values and
\* query parameters are held as their texts.
Falsy(v) == v \in {"undefined", "null", "false", "0", "''"}

\* a || b
OrElse(a, b) == IF Falsy(a) THEN b ELSE a

\* No reply yet.
NoResponse ==
  [endpoint |-> "none", request |-> <<>>, status |-> 0, error |-> "",
   data |-> <<>>]

\* res.status(status).json({success, error, data, count}).
Respond(endpoint, request, status, error, data) ==
  response' = [endpoint |-> endpoint, request |-> request, status |-> status,
               error |-> error, data |-> data]

\* The own properties of commandMap.
CommandNames == {"setThreshold", "stop", "start", "reset"}

\* Members every object literal inherits from Object.prototype; their values
\* are functions (or, for __proto__, the prototype), all of them truthy.
ObjectPrototypeKeys ==
  {"constructor", "toString", "valueOf", "hasOwnProperty", "__proto__"}

\* commandMap[command] (line 174-181): a property lookup on an object
\* literal, which finds the four own properties and then the inherited ones.
commandMap(command) ==
  CASE command = "setThreshold" -> "/threshold/set"
    [] command = "stop" -> "/stop"
    [] command = "start" -> "/start"
    [] command = "reset" -> "/reset"
    [] command \in ObjectPrototypeKeys -> "[inherited]"
    [] OTHER -> "undefined"

\* POST /api/command/:nodeId with body {command, data}; the handler has no
\* await, so it is one step. A socket is in io.sockets.sockets while it is
\* open.
PostCommand(nodeId, command, data) ==
  /\ env.commands > 0
  /\ LET request == [nodeId |-> nodeId, command |-> command, data |-> data]
         mine == {i \in 1..Len(connectedNodes) :
                    connectedNodes[i].nodeId = nodeId}
     IN IF mine = {}
          THEN /\ Respond("command", request, 404, "Node not connected", <<>>)
               /\ emitted' = emitted
          ELSE LET nodeInfo == connectedNodes[CHOOSE i \in mine : TRUE]
                   eventName == commandMap(command)
               IN IF sockets[nodeInfo.socketId].conn # "open"
                    THEN /\ Respond("command", request, 404,
                                    "Socket not found", <<>>)
                         /\ emitted' = emitted
                    ELSE IF Falsy(eventName)
                      THEN /\ Respond("command", request, 400,
                                      "Invalid command", <<>>)
                           /\ emitted' = emitted
                      ELSE /\ emitted' =
                                Append(emitted,
                                       [socketId |-> nodeInfo.socketId,
                                        frame |-> <<eventName,
                                                    OrElse(data, "{}")>>])
                           /\ Respond("command", request, 200, "", <<>>)
  /\ env' = [env EXCEPT !.commands = @ - 1]
  /\ UNCHANGED <<gatewayVars, queue, clock, ingestVars>>

\* A decimal digit and its value.
Digits == {"0", "1", "2", "3", "4", "5", "6", "7", "8", "9"}
DigitValue(c) ==
  CASE c = "0" -> 0 [] c = "1" -> 1 [] c = "2" -> 2 [] c = "3" -> 3
    [] c = "4" -> 4 [] c = "5" -> 5 [] c = "6" -> 6 [] c = "7" -> 7
    [] c = "8" -> 8 [] c = "9" -> 9
DigitOf(d) == CHOOSE c \in Digits : DigitValue(c) = d

\* The decimal text of a number, as a client writes it into a query string.
RECURSIVE Decimal(_)
Decimal(n) ==
  IF n < 10 THEN <<DigitOf(n)>> ELSE Append(Decimal(n \div 10), DigitOf(n % 10))

\* parseInt(text): the number written by the leading digits of the text;
\* NaN when the text does not start with a digit.
RECURSIVE LeadingDigits(_)
LeadingDigits(text) ==
  IF text = <<>> \/ Head(text) \notin Digits
    THEN <<>>
    ELSE <<Head(text)>> \o LeadingDigits(Tail(text))

RECURSIVE DigitsValue(_)
DigitsValue(ds) ==
  IF ds = <<>>
    THEN 0
    ELSE 10 * DigitsValue(SubSeq(ds, 1, Len(ds) - 1))
         + DigitValue(ds[Len(ds)])

parseInt(text) ==
  LET ds == LeadingDigits(text)
  IN [nan |-> ds = <<>>, value |-> DigitsValue(ds)]

\* A query parameter that is absent is undefined and one that is empty is
\* "": both are falsy, every other text is truthy (also "0").
Given(text) == text # <<>>

\* find(query).sort({seq: 1}).toArray(): the documents of the set in
\* ascending seq; the unique index makes the order total within a node.
RECURSIVE SortBySeq(_)
SortBySeq(docs) ==
  IF docs = {}
    THEN <<>>
    ELSE LET first == CHOOSE d \in docs : \A e \in docs : d.seq <= e.seq
         IN <<first>> \o SortBySeq(docs \ {first})

\* cursor.limit(n): at most n documents, all of them for n = 0.
Limit(list, n) == IF n = 0 THEN list ELSE SubSeq(list, 1, Min(n, Len(list)))

\* The sync query with $gte in place of $gt.
SyncDataInclusive(nodeId, lastSeq) ==
  LET n == parseInt(lastSeq)
  IN SortBySeq({r \in records :
                  r.nodeId = nodeId /\ ~n.nan /\ r.seq >= n.value})

\* GET /api/sync/:nodeId?lastSeq= (line 137-155), the query it runs.
SyncData(nodeId, lastSeq) ==
  LET n == parseInt(lastSeq)
  IN SortBySeq({r \in records : r.nodeId = nodeId /\ ~n.nan /\ r.seq > n.value})

GetSync(nodeId, lastSeq) ==
  /\ env.queries > 0
  /\ LET request == [nodeId |-> nodeId, lastSeq |-> lastSeq]
     IN IF ~Given(lastSeq)
          THEN Respond("sync", request, 400, "lastSeq required", <<>>)
          ELSE Respond("sync", request, 200, "", SyncData(nodeId, lastSeq))
  /\ env' = [env EXCEPT !.queries = @ - 1]
  /\ UNCHANGED <<gatewayVars, queue, clock, ingestVars, emitted>>

\* GET /api/series/:nodeId (line 97-120), the query it runs: a ts range when
\* fromTs and toTs are given, else a seq range when fromSeq and toSeq are
\* given, else every document of the node; both bounds inclusive.
SeriesData(nodeId, q) ==
  LET lo == IF Given(q.fromTs) /\ Given(q.toTs)
              THEN parseInt(q.fromTs) ELSE parseInt(q.fromSeq)
      hi == IF Given(q.fromTs) /\ Given(q.toTs)
              THEN parseInt(q.toTs) ELSE parseInt(q.toSeq)
      Within(x) == ~lo.nan /\ ~hi.nan /\ lo.value <= x /\ x <= hi.value
      found == {r \in records :
                  /\ r.nodeId = nodeId
                  /\ IF Given(q.fromTs) /\ Given(q.toTs)
                       THEN Within(r.ts)
                       ELSE (Given(q.fromSeq) /\ Given(q.toSeq))
                              => Within(r.seq)}
      limit == IF Given(q.limit)
                 THEN parseInt(q.limit).value ELSE DEFAULT_LIMIT
  IN Limit(SortBySeq(found), limit)

GetSeries(nodeId, q) ==
  /\ env.queries > 0
  /\ Respond("series", [nodeId |-> nodeId] @@ q, 200, "",
             SeriesData(nodeId, q))
  /\ env' = [env EXCEPT !.queries = @ - 1]
  /\ UNCHANGED <<gatewayVars, queue, clock, ingestVars, emitted>>

\* ------------------------------------------------------------ specifications

\* The /save and data frames a device may send.
Payloads(ids) == [deviceId : ids, current : {17}]

InitGatewayState ==
  /\ sockets = [s \in Sockets |-> NewSocket]
  /\ connectedNodes = <<>>
  /\ nodeBuffers = <<>>
  /\ inflight = <<>>
  /\ live = {}
  /\ announced = [n \in Nodes |-> [connected |-> 0, disconnected |-> 0]]
  /\ frames = 0
  /\ unhandled = 0
  /\ response = NoResponse
  /\ emitted = <<>>

InitIngester ==
  /\ counters = [n \in Nodes |-> 0]
  /\ records = {}
  /\ totalRecords = [n \in Nodes |-> 0]
  /\ processQueues = {}
  /\ flushTimers = [n \in Nodes |-> "none"]
  /\ strayTimers = [n \in Nodes |-> 0]
  /\ loops = [n \in Nodes |-> 0]
  /\ loopPc = [n \in Nodes |-> "off"]
  /\ flushes = [n \in Nodes |-> [f \in FlushIds |-> IdleFlush]]
  /\ errorLog = {}

Budget(nPush, nInsertFail, nFrames, nIdentify, nExecFail, socks, ids) ==
  [pushes |-> nPush, insertFails |-> nInsertFail, frames |-> nFrames,
   identifies |-> nIdentify, execFails |-> nExecFail, sockets |-> socks,
   frameIds |-> ids, commands |-> 0, queries |-> 0, malformed |-> 0,
   restarts |-> 0]

InitIngest ==
  /\ InitGatewayState
  /\ queue = [n \in Nodes |-> <<>>]
  /\ clock = [n \in Nodes |-> 0]
  /\ InitIngester
  /\ env = Budget(MaxPush, MaxInsertFail, 0, 0, 0, {}, {})

\* One step of one flushBatch call; a call is sequential, so at most one of
\* these is enabled for it.
FlushStep(n, f) ==
  \/ FlushLlen(n, f)
  \/ FlushPop(n, f)
  \/ FlushSeq(n, f)
  \/ FlushInsert(n, f)
  \/ FlushMetrics(n, f)

IngesterStep(n) ==
  \/ LoopLlen(n)
  \/ LoopWake(n)
  \/ TimerFire(n)
  \/ \E f \in FlushIds : FlushStep(n, f)

NextIngest ==
  \/ Scan
  \/ IngesterStep("A")
  \/ \E k \in 1..BUFFER_SIZE : Rpush("A", k)

SpecIngest == InitIngest /\ [][NextIngest]_vars

InitGateway ==
  /\ InitGatewayState
  /\ queue = [n \in Nodes |-> <<>>]
  /\ clock = [n \in Nodes |-> 0]
  /\ InitIngester
  /\ env = Budget(0, 0, MaxFrames, MaxIdentify, MaxExecFail, Sockets,
                  {"A"})

GatewayStep(s) ==
  \/ Connect(s)
  \/ IdentifyTimeout(s)
  \/ \E nodeId \in env.frameIds \ {NoId} : Identify(s, "node", nodeId)
  \/ \E payload \in Payloads(env.frameIds) : Save(s, payload)
  \/ \E payload \in Payloads(env.frameIds) : Data(s, payload)
  \/ Disconnect(s)

NextGateway ==
  \/ \E s \in Sockets : GatewayStep(s)
  \/ ExecResolved
  \/ ExecRejected

SpecGateway == InitGateway /\ [][NextGateway]_vars

\* The whole pipeline with its stores reachable: one device on one socket, the
\* gateway, the queue and the ingester.
Init ==
  /\ InitGatewayState
  /\ queue = [n \in Nodes |-> <<>>]
  /\ clock = [n \in Nodes |-> 0]
  /\ InitIngester
  /\ env = Budget(0, 0, MaxSaves, 0, 0, {"s1"}, {"A"})

Next ==
  \/ Connect("s1")
  \/ \E payload \in Payloads(env.frameIds) : Save("s1", payload)
  \/ Disconnect("s1")
  \/ ExecResolved
  \/ Scan
  \/ IngesterStep("A")

Spec == Init /\ [][Next]_vars

\* The gateway's registry: sockets that identify, also repeatedly, let the
\* identification timer fire, send /save frames with and without deviceId
\* and disconnect.
InitRegistry ==
  /\ InitGatewayState
  /\ queue = [n \in Nodes |-> <<>>]
  /\ clock = [n \in Nodes |-> 0]
  /\ InitIngester
  /\ env = Budget(0, 0, 1, MaxReidentify, 0, Sockets, {"A", NoId})

RegistryStep(s) ==
  \/ Connect(s)
  \/ IdentifyTimeout(s)
  \/ \E nodeId \in DeviceIds : Identify(s, "node", nodeId)
  \/ \E payload \in Payloads(env.frameIds) : Save(s, payload)
  \/ Disconnect(s)

NextRegistry ==
  \/ \E s \in Sockets : RegistryStep(s)
  \/ ExecResolved

SpecRegistry == InitRegistry /\ [][NextRegistry]_vars

\* The command endpoint next to the registry: requests to POST /api/command
\* for registered and unregistered nodes, with commands inside and outside
\* the table.
Commands == CommandNames \cup {"toString", "explode", "undefined"}
DataValues == {"{threshold:80}", "0", "undefined"}

InitCommand ==
  /\ InitGatewayState
  /\ queue = [n \in Nodes |-> <<>>]
  /\ clock = [n \in Nodes |-> 0]
  /\ InitIngester
  /\ env = [Budget(0, 0, 1, MaxIdentify, 0, Sockets, {"A", NoId})
              EXCEPT !.commands = MaxCommands]

NextCommand ==
  \/ \E s \in Sockets : RegistryStep(s)
  \/ ExecResolved
  \/ \E nodeId \in DeviceIds, command \in Commands, data \in DataValues :
       PostCommand(nodeId, command, data)

SpecCommand == InitCommand /\ [][NextCommand]_vars

\* The read endpoints over a store at rest: every store content with seqs up
\* to MaxSeq (gaps included), and requests to GET /api/sync and
\* GET /api/series.
StoreDocs ==
  {[nodeId |-> n, seq |-> q, ts |-> q, payload |-> [current |-> 17],
    meta |-> [source |-> "esp32", rawDeviceId |-> n]] :
     n \in DeviceIds, q \in 1..MaxSeq}

\* A seq above every seq of the store, for a toSeq that bounds nothing.
UpperSeq == 10 * MaxSeq

LastSeqTexts ==
  {<<>>, <<"1", "x">>} \cup {Decimal(k) : k \in 0..(MaxSeq + 1)}

\* Requests with a ts range, and requests with a seq range or none.
SeriesQueries ==
  [fromTs : {Decimal(1)}, toTs : {Decimal(2)}, fromSeq : {<<>>, Decimal(1)},
   toSeq : {<<>>}, limit : {<<>>}]
  \cup
  [fromTs : {<<>>}, toTs : {<<>>},
   fromSeq : {<<>>} \cup {Decimal(k) : k \in 0..(MaxSeq + 1)},
   toSeq : {<<>>, Decimal(1), Decimal(UpperSeq)},
   limit : {<<>>, Decimal(0), Decimal(1)}]

InitQuery ==
  /\ InitGatewayState
  /\ queue = [n \in Nodes |-> <<>>]
  /\ clock = [n \in Nodes |-> 0]
  /\ records \in SUBSET StoreDocs
  /\ counters = [n \in Nodes |-> MaxSeq]
  /\ totalRecords = [n \in Nodes |-> 0]
  /\ processQueues = {}
  /\ flushTimers = [n \in Nodes |-> "none"]
  /\ strayTimers = [n \in Nodes |-> 0]
  /\ loops = [n \in Nodes |-> 0]
  /\ loopPc = [n \in Nodes |-> "off"]
  /\ flushes = [n \in Nodes |-> [f \in FlushIds |-> IdleFlush]]
  /\ errorLog = {}
  /\ env = [Budget(0, 0, 0, 0, 0, {}, {}) EXCEPT !.queries = MaxQueries]

NextQuery ==
  \/ \E lastSeq \in LastSeqTexts : GetSync("A", lastSeq)
  \/ \E q \in SeriesQueries : GetSeries("A", q)

SpecQuery == InitQuery /\ [][NextQuery]_vars

\* The sync endpoint next to a running ingester whose stores are reachable:
\* a dashboard asks for what it misses while batches are being written.
InitReplay ==
  /\ InitGatewayState
  /\ queue = [n \in Nodes |-> <<>>]
  /\ clock = [n \in Nodes |-> 0]
  /\ InitIngester
  /\ env = [Budget(MaxPush, 0, 0, 0, 0, {}, {}) EXCEPT !.queries = MaxQueries]

NextReplay ==
  \/ Scan
  \/ IngesterStep("A")
  \/ \E k \in 1..BUFFER_SIZE : Rpush("A", k)
  \/ \E k \in 0..1 : GetSync("A", Decimal(k))

SpecReplay == InitReplay /\ [][NextReplay]_vars

\* The whole pipeline for a device that sends no more frames than its buffer
\* holds Readings and disconnects at any point.
InitDisconnect ==
  /\ InitGatewayState
  /\ queue = [n \in Nodes |-> <<>>]
  /\ clock = [n \in Nodes |-> 0]
  /\ InitIngester
  /\ env = Budget(0, 0, BUFFER_SIZE, 0, 0, {"s1"}, {"A"})

SpecDisconnect == InitDisconnect /\ [][Next]_vars

\* The scheduling the two Node.js processes guarantee: a reply that is due
\* arrives, a timer that is armed fires, the event loop runs every callback
\* that is ready. Nothing is assumed of the devices.
IngesterFairness ==
  /\ WF_vars(Scan)
  /\ WF_vars(LoopLlen("A") \/ LoopWake("A"))
  /\ WF_vars(TimerFire("A"))
  /\ \A f \in FlushIds : WF_vars(FlushStep("A", f))

SpecIngestFair == SpecIngest /\ IngesterFairness

SpecFair == Spec /\ WF_vars(ExecResolved) /\ IngesterFairness

SpecDisconnectFair ==
  SpecDisconnect /\ WF_vars(ExecResolved) /\ IngesterFairness

\* ------------------------------------------------------------ claims

FlushRunning(n) == \E f \in FlushIds : flushes[n][f].pc # "idle"
RecordsOf(n) == {r \in records : r.nodeId = n}
SeqsOf(n) == {r.seq : r \in RecordsOf(n)}
Persisted(n, k) == \E r \in records : r.nodeId = n /\ r.ts = k
InFlightOf(n) == {i \in 1..Len(inflight) : inflight[i].nodeId = n}
BufferIn(buffers, n) == IF Has(buffers, n) THEN buffers[n] ELSE <<>>
BufferOf(n) == BufferIn(nodeBuffers, n)

\* C1: for every node, whenever no flush of the node is in progress, the seqs
\* of its persisted Records are exactly 1..max: none is missing.
C1_SeqsDense ==
  \A n \in Nodes :
    ~FlushRunning(n) => \A s \in SeqsOf(n) : \A t \in 1..s : t \in SeqsOf(n)

\* C2: for every node, once its queue is empty and no flush of it is in
\* progress, the number of its Records equals counters[node].seq.
C2_CountEqualsCounter ==
  \A n \in Nodes :
    (Len(queue[n]) = 0 /\ ~FlushRunning(n))
      => Cardinality(RecordsOf(n)) = counters[n]

\* C3: two persisted Readings of one device carry seqs in the order in which
\* the gateway accepted them.
C3_OrderPreserved ==
  \A r1, r2 \in records :
    (r1.nodeId = r2.nodeId /\ r1.ts < r2.ts) => r1.seq < r2.seq

\* C4: every /save frame received on a node socket has become exactly one
\* Reading: one buffer append and one data:live broadcast per frame; and once
\* the socket has closed and everything is drained, the N frames are N Records
\* with seq 1..N and totalRecords = N.
C4_OneReadingPerSave ==
  /\ clock["A"] = frames
  /\ Cardinality(live) = frames
  /\ (/\ sockets["s1"].conn = "closed"
      /\ inflight = <<>>
      /\ Len(queue["A"]) = 0
      /\ ~FlushRunning("A"))
       => /\ SeqsOf("A") = 1..frames
          /\ totalRecords["A"] = frames

\* C5: every Reading the gateway accepted is eventually a Record with the same
\* nodeId, ts and payload, whatever the device does afterwards.
C5_EventuallyPersisted ==
  \A k \in 1..(2 * MaxSaves) :
    (clock["A"] >= k) ~>
      (\E r \in records :
         r.nodeId = "A" /\ r.ts = k /\ r.payload = [current |-> 17])

\* C6: every Reading in a node's queue is eventually a Record or named by an
\* error report of the ingester, also when it was queued after the node's
\* processing loop had ended on an empty queue.
C6_QueuedIsSettled ==
  \A k \in 1..(MaxPush + 1) :
    (\E i \in 1..Len(queue["A"]) : Parse(queue["A"][i]).ts = k) ~>
      (Persisted("A", k) \/ \E r \in errorLog : r.nodeId = "A" /\ r.ts = k)

\* A batch was persisted, one was reported, the loop has ended and released
\* its marker, and Readings queued since then wait for the next scan.
C6_Witness ==
  /\ loopPc["A"] = "off"
  /\ "A" \notin processQueues
  /\ ~FlushRunning("A")
  /\ Len(queue["A"]) > 0
  /\ RecordsOf("A") # {}
  /\ errorLog # {}

\* C7: at most one flushToRedis of a device awaits its durable append.
C7_OneFlushInFlight ==
  \A n \in Nodes : Cardinality(InFlightOf(n)) <= 1

\* The copies of the device's k-th Reading that have left the gateway: in the
\* queue, in a batch the ingester has popped, or in the store.
Appended(n, k) ==
  Cardinality({i \in 1..Len(queue[n]) : Parse(queue[n][i]).ts = k})
  + Cardinality({x \in FlushIds \X (1..BATCH_SIZE) :
                   /\ x[2] <= Len(flushes[n][x[1]].batch)
                   /\ flushes[n][x[1]].batch[x[2]].ts = k})
  + Cardinality({r \in RecordsOf(n) : r.ts = k})

\* C8: every accepted Reading of a device is appended to the device's queue
\* exactly once: never twice, and while it is not appended yet it is still in
\* the buffer or in a flush in flight.
C8_AppendedExactlyOnce ==
  \A n \in Nodes : \A k \in 1..clock[n] :
    /\ Appended(n, k) <= 1
    /\ Appended(n, k) = 0 =>
         \/ \E i \in 1..Len(BufferOf(n)) : BufferOf(n)[i].ts = k
         \/ \E i \in InFlightOf(n) :
              \E j \in 1..Len(inflight[i].items) :
                Parse(inflight[i].items[j]).ts = k

\* Sequence s starts with sequence p.
IsPrefix(p, s) == Len(p) <= Len(s) /\ \A i \in 1..Len(p) : p[i] = s[i]

Texts(buffer) == [i \in 1..Len(buffer) |-> Stringify(buffer[i])]

\* C9: whenever no flush of a device is in flight, none of its Readings is
\* both in its buffer and in its queue; a flush takes the buffered Readings
\* in buffer order (on a disconnect, which then drops the buffer, all of
\* them), and when it completes it has appended them to the tail of the queue
\* as one batch and the buffer is empty.
C9_FlushHandsOver ==
  [][/\ \A n \in Nodes :
          (\A i \in 1..Len(inflight') : inflight'[i].nodeId # n) =>
            Range(Texts(BufferIn(nodeBuffers', n))) \cap Range(queue'[n]) = {}
     /\ \A i \in 1..Len(inflight') :
          i > Len(inflight) =>
            LET p == inflight'[i]
            IN IF Has(nodeBuffers', p.nodeId)
                 THEN IsPrefix(p.items, Texts(nodeBuffers'[p.nodeId]))
                 ELSE p.items = Texts(BufferOf(p.nodeId))
     /\ (Len(inflight') < Len(inflight) /\ queue' # queue) =>
          LET p == Head(inflight)
          IN /\ queue'[p.nodeId] = queue[p.nodeId] \o p.items
             /\ BufferIn(nodeBuffers', p.nodeId) = <<>>]_vars

\* A flush has completed, later Readings are buffered, none is in flight.
C9_Witness ==
  \E n \in Nodes :
    /\ InFlightOf(n) = {}
    /\ Len(queue[n]) >= BUFFER_SIZE
    /\ Len(BufferOf(n)) > 0

\* C10: when the durable append of a flush fails, the Readings of that flush
\* are all still in the device's buffer, whatever triggered the flush.
C10_FailedAppendKeepsBuffer ==
  [][(Len(inflight') < Len(inflight) /\ env'.execFails < env.execFails) =>
       LET p == Head(inflight)
       IN \A j \in 1..Len(p.items) :
            p.items[j] \in Range(Texts(BufferIn(nodeBuffers', p.nodeId)))]_vars

\* The flushes of device n that a step starts on data arrival.
NewFullFlushes(n) ==
  {i \in (Len(inflight) + 1)..Len(inflight') :
     inflight'[i].nodeId = n /\ inflight'[i].trigger = "full"}

\* C11: a Reading that leaves the device's buffer with fewer than BUFFER_SIZE
\* Readings starts no flush; the Reading that brings the buffer to
\* BUFFER_SIZE starts a flush of exactly BUFFER_SIZE items, and when that
\* flush completes exactly these items have been added to the queue.
C11_FlushThreshold ==
  [][/\ \A n \in Nodes :
          /\ Len(BufferIn(nodeBuffers', n)) < BUFFER_SIZE
               => NewFullFlushes(n) = {}
          /\ (/\ clock'[n] > clock[n]
              /\ clock'[n] - clock[n] + Len(BufferOf(n)) >= BUFFER_SIZE
              /\ Len(BufferOf(n)) < BUFFER_SIZE
              /\ Len(BufferIn(nodeBuffers', n))
                   = clock'[n] - clock[n] + Len(BufferOf(n)))
               => \E i \in NewFullFlushes(n) :
                    /\ Len(inflight'[i].items) = BUFFER_SIZE
                    /\ \A j \in NewFullFlushes(n) : i <= j
     /\ (Len(inflight') < Len(inflight) /\ queue' # queue) =>
          LET p == Head(inflight)
          IN Len(queue'[p.nodeId]) = Len(queue[p.nodeId]) + Len(p.items)]_vars

\* A flush started by the Reading that filled the buffer has completed: its
\* BUFFER_SIZE items are the queue.
C11_Witness ==
  \E n \in Nodes :
    /\ Len(queue[n]) = BUFFER_SIZE
    /\ InFlightOf(n) = {}
    /\ clock[n] = BUFFER_SIZE

\* The device's socket has closed after k Readings in all, fewer than
\* BUFFER_SIZE, so that all k were in the buffer when it closed.
ClosedWith(k) == sockets["s1"].conn = "closed" /\ clock["A"] = k

\* The store holds the k Readings as k Records, seq 1..k in acceptance
\* order, and nothing of the device is left in the queue.
SettledWith(k) ==
  /\ Cardinality(RecordsOf("A")) = k
  /\ SeqsOf("A") = 1..k
  /\ \A r \in RecordsOf("A") : r.ts = r.seq
  /\ Len(queue["A"]) = 0

\* C12: when the socket of a fresh node closes with k buffered Readings,
\* 0 < k < BUFFER_SIZE, these k Readings end up as exactly k Records with
\* seq 1..k, and it stays so.
C12_DisconnectFlushes ==
  \A k \in 1..(BUFFER_SIZE - 1) : ClosedWith(k) ~> [](SettledWith(k))

\* The disconnect flush of one buffered Reading has become a Record.
C12_Witness ==
  /\ ClosedWith(1)
  /\ SettledWith(1)
  /\ announced["A"].disconnected = 1

\* C13: once the node's socket has closed and no flush of the node is in
\* flight any more, the node is in neither the registry nor the buffer map,
\* and node:disconnected was broadcast for it exactly once.
C13_DisconnectCleansUp ==
  (/\ sockets["s1"].conn = "closed"
   /\ announced["A"].connected > 0
   /\ InFlightOf("A") = {})
    => /\ ~RegHas(connectedNodes, "A")
       /\ ~Has(nodeBuffers, "A")
       /\ announced["A"].disconnected = 1

\* The registry entries of node n.
EntriesOf(reg, n) == {i \in 1..Len(reg) : reg[i].nodeId = n}

\* The step is an identify {type: node, nodeId: n} on socket s.
IdentifyStep(s, n) ==
  /\ env'.identifies = env.identifies - 1
  /\ sockets'[s].handlers = Append(sockets[s].handlers, n)

\* C14: an identify of type node on a socket that an earlier identify of the
\* same socket has registered under the same id leaves the registry as it
\* was: one entry for the device, with the same socketId and metadata.
C14_IdentifyIdempotent ==
  [][\A s \in Sockets : \A n \in DeviceIds :
       (/\ IdentifyStep(s, n)
        /\ \E i \in EntriesOf(connectedNodes, n) :
             /\ connectedNodes[i].socketId = s
             /\ ~connectedNodes[i].metadata.autoIdentified)
         => /\ Cardinality(EntriesOf(connectedNodes', n)) = 1
            /\ connectedNodes' = connectedNodes]_vars

\* One socket has identified twice as node A and sent nothing else.
C14_Witness ==
  \E s \in Sockets :
    /\ sockets[s].handlers = <<"A", "A">>
    /\ env.identifies = MaxReidentify - 2
    /\ env.frames = 1
    /\ Cardinality(EntriesOf(connectedNodes, "A")) = 1

\* The last element of a non-empty sequence.
Last(q) == q[Len(q)]

\* C15: when the identification timer fires the socket is marked
\* un-identified, stays connected and no node is registered for it; a /save
\* on such a socket registers it as a node under the frame's deviceId, or
\* under ESP32_<socket id> when the frame carries none, with
\* metadata.autoIdentified = true, and the frame's Reading is accepted.
C15_TimeoutThenAutoIdentify ==
  [][\A s \in Sockets :
       /\ (sockets[s].idTimer /\ sockets'[s].identified = "false")
            => /\ sockets'[s].conn = "open"
               /\ connectedNodes' = connectedNodes
               /\ \A i \in 1..Len(connectedNodes') :
                    connectedNodes'[i].socketId # s
       /\ (/\ sockets[s].identified = "false"
           /\ sockets[s].conn = "open"
           /\ sockets'[s].identified = "true"
           /\ frames' = frames + 1)
            => LET id == sockets'[s].nodeId
               IN /\ id \in Nodes
                  /\ \E i \in EntriesOf(connectedNodes', id) :
                       /\ connectedNodes'[i].socketId = s
                       /\ connectedNodes'[i].metadata.autoIdentified
                  /\ clock'[id] = clock[id] + 1
                  /\ BufferIn(nodeBuffers', id) # <<>>
                  /\ LET reading == Last(nodeBuffers'[id])
                     IN /\ reading.ts = clock'[id]
                        /\ reading \in live'
                        /\ id = IF reading.meta.rawDeviceId # NoId
                                  THEN reading.meta.rawDeviceId
                                  ELSE SynthId(s)]_vars

\* The timer of a socket has fired: it is un-identified, open and not
\* registered, while the gateway already serves another node.
C15_Witness ==
  \E s \in Sockets :
    /\ sockets[s].identified = "false"
    /\ sockets[s].conn = "open"
    /\ \A i \in 1..Len(connectedNodes) : connectedNodes[i].socketId # s
    /\ \E t \in Sockets \ {s} : sockets[t].nodeId = SynthId(t)

\* The step is a POST /api/command request.
CommandStep == env'.commands = env.commands - 1

\* The socket a command for node n would be sent to is open.
Reachable(n) ==
  \E i \in EntriesOf(connectedNodes, n) :
    sockets[connectedNodes[i].socketId].conn = "open"

\* C16: a command request with a command outside the table is answered with
\* a 4xx status, one for a node that is not registered or whose socket is gone
\* with 404, and neither emits a frame.
C16_CommandErrors ==
  [][CommandStep =>
       LET request == response'.request
       IN /\ request.command \notin CommandNames
               => /\ response'.status \in 400..499
                  /\ emitted' = emitted
          /\ ~Reachable(request.nodeId)
               => /\ response'.status = 404
                  /\ emitted' = emitted]_vars

\* C17: a known command for a connected node emits exactly one frame
\* [event, data] to the node's socket, the event being the command's image
\* in the table and data the request's data, and is answered with 200.
C17_CommandForwarded ==
  [][(/\ CommandStep
      /\ response'.request.command \in CommandNames
      /\ response'.request.data # "undefined"
      /\ Reachable(response'.request.nodeId))
       => LET request == response'.request
              entry == connectedNodes[CHOOSE i \in
                                        EntriesOf(connectedNodes,
                                                  request.nodeId) : TRUE]
              event == CASE request.command = "setThreshold"
                              -> "/threshold/set"
                         [] request.command = "stop" -> "/stop"
                         [] request.command = "start" -> "/start"
                         [] request.command = "reset" -> "/reset"
          IN /\ response'.status = 200
             /\ emitted' = Append(emitted,
                                  [socketId |-> entry.socketId,
                                   frame |-> <<event, request.data>>])]_vars

\* C18: GET /api/sync/:nodeId?lastSeq=N answers with exactly the node's
\* Records of seq > N in ascending seq, for every store and every N from 0;
\* without lastSeq it answers 400 with no data.
C18_SyncReturnsNewer ==
  response.endpoint = "sync" =>
    LET request == response.request
    IN /\ request.lastSeq = <<>>
            => response.status = 400 /\ response.data = <<>>
       /\ \A N \in 0..(MaxSeq + 1) :
            request.lastSeq = Decimal(N) =>
              /\ response.status = 200
              /\ Range(response.data)
                   = {r \in records : r.nodeId = request.nodeId /\ r.seq > N}
              /\ \A i, j \in 1..Len(response.data) :
                   i < j => response.data[i].seq < response.data[j].seq

\* A sync with lastSeq=1 on a store that holds the node's seq 1 has returned
\* two newer Records.
C18_Witness ==
  /\ response.endpoint = "sync"
  /\ response.request.lastSeq = Decimal(1)
  /\ Len(response.data) = 2
  /\ \E r \in records : r.nodeId = response.request.nodeId /\ r.seq = 1

\* C19: for every node, every k and every store, sync with lastSeq=k and
\* series with fromSeq=k+1, a toSeq above every seq and the default limit
\* return the same list.
C19_ReplayRoundTrip ==
  \A n \in DeviceIds : \A k \in 0..MaxSeq :
    SyncData(n, Decimal(k))
      = SeriesData(n, [fromTs |-> <<>>, toTs |-> <<>>,
                       fromSeq |-> Decimal(k + 1),
                       toSeq |-> Decimal(UpperSeq), limit |-> <<>>])

\* C20: whenever the dashboard calls sync with lastSeq=k while the ingester
\* is writing batches, the seqs of the returned Records are k+1, k+2, ...
\* without a gap.
C20_SyncFillsGap ==
  (response.endpoint = "sync" /\ response.status = 200) =>
    \A k \in 0..1 :
      response.request.lastSeq = Decimal(k) =>
        \A i \in 1..Len(response.data) : response.data[i].seq = k + i

\* ------------------------------------------------------------ C21

\* The entries of a batch are consecutive entries of the list, oldest first.
ContiguousRun(batch) ==
  \A i \in 1..(Len(batch) - 1) : batch[i + 1].ts = batch[i].ts + 1

\* C21: when the loop observes a length L with 0 < L < BATCH_SIZE it starts
\* no flush and a flush timer is pending; when it observes L >= BATCH_SIZE it
\* calls flushBatch at once, and that call pops exactly min(BATCH_SIZE, L) =
\* BATCH_SIZE entries, a run of consecutive entries from the head.
C21_FlushThreshold ==
  [][\A n \in Nodes :
       /\ (loopPc[n] = "llen" /\ loopPc'[n] # "llen"
             /\ 0 < Len(queue[n]) /\ Len(queue[n]) < BATCH_SIZE)
            => /\ flushes'[n][LoopFlush].pc = "idle"
               /\ flushTimers'[n] # "none"
       /\ (loopPc[n] = "llen" /\ loopPc'[n] # "llen"
             /\ Len(queue[n]) >= BATCH_SIZE)
            => flushes'[n][LoopFlush].pc = "llen"
       /\ (flushes[n][LoopFlush].pc \in {"llen", "pop"}
             /\ flushes'[n][LoopFlush].pc \notin {"llen", "pop"})
            => /\ flushes'[n][LoopFlush].pc = "seq"
               /\ Len(flushes'[n][LoopFlush].batch) = BATCH_SIZE
               /\ ContiguousRun(flushes'[n][LoopFlush].batch)]_vars

\* ------------------------------------------------------------ C22

\* The ingester starts, and is killed and restarted, with Readings already
\* in the list and none popped; nothing is pushed meanwhile and the stores
\* answer.
InitRestart ==
  /\ InitGatewayState
  /\ \E k \in 1..MaxPush :
       /\ queue = [n \in Nodes |->
                     IF n = "A"
                       THEN [i \in 1..k |->
                               Stringify(Reading("A", i, [current |-> 17],
                                                 [source |-> "esp32",
                                                  rawDeviceId |-> "A"]))]
                       ELSE <<>>]
       /\ clock = [n \in Nodes |-> IF n = "A" THEN k ELSE 0]
  /\ InitIngester
  /\ env = [Budget(0, 0, 0, 0, 0, {}, {}) EXCEPT !.restarts = MaxRestart]

NextRestart ==
  \/ Scan
  \/ IngesterStep("A")
  \/ Restart

SpecRestart == InitRestart /\ [][NextRestart]_vars

SpecRestartFair == SpecRestart /\ IngesterFairness

\* All Readings of the node are Records, numbered in list order from 1.
AllIngested(n) ==
  /\ Len(queue[n]) = 0
  /\ Cardinality(RecordsOf(n)) = clock[n]
  /\ \A k \in 1..clock[n] :
       \E r \in records : r.nodeId = n /\ r.ts = k /\ r.seq = k

\* C22: when the ingester is killed with n Readings in the list and none
\* popped, then after the restart all n eventually are, and stay, Records with
\* seq 1..n.
C22_RestartWithoutLoss ==
  (env.restarts < MaxRestart /\ Len(queue["A"]) = clock["A"]
     /\ records = {}) ~> [](AllIngested("A"))

\* The process was restarted and all Readings, more than one batch, are
\* Records.
C22_Witness ==
  /\ env.restarts < MaxRestart
  /\ clock["A"] > BATCH_SIZE
  /\ AllIngested("A")

\* ------------------------------------------------------------ C23

\* Device A on socket s1 and device B on socket s2; each frame names its
\* device and carries a value only that device sends.
DeviceOf(s) == IF s = "s1" THEN "A" ELSE "B"

ValueOf(deviceId) == IF deviceId = "A" THEN 17 ELSE 18

FrameOf(s) == [deviceId |-> DeviceOf(s), current |-> ValueOf(DeviceOf(s))]

InitTwoDevices ==
  /\ InitGatewayState
  /\ queue = [n \in Nodes |-> <<>>]
  /\ clock = [n \in Nodes |-> 0]
  /\ InitIngester
  /\ env = Budget(0, 0, BUFFER_SIZE, 0, 0, Sockets, DeviceIds)

NextTwoDevices ==
  \/ \E s \in Sockets : Connect(s)
  \/ \E s \in Sockets : Save(s, FrameOf(s))
  \/ \E s \in Sockets : Disconnect(s)
  \/ ExecResolved
  \/ Scan
  \/ \E n \in DeviceIds : IngesterStep(n)

SpecTwoDevices == InitTwoDevices /\ [][NextTwoDevices]_vars

\* Nothing of the device is under way: no buffer, no pipeline, no list entry,
\* no flushBatch call.
Drained(n) ==
  /\ ~Has(nodeBuffers, n) \/ nodeBuffers[n] = <<>>
  /\ InFlightOf(n) = {}
  /\ Len(queue[n]) = 0
  /\ ~FlushRunning(n)

\* C23: with two devices in any interleaving, every Record of a device
\* carries a Reading that device sent, and once everything of a device is
\* ingested its seq values are exactly 1..(number of its Readings).
C23_NoCrossContamination ==
  /\ \A r \in records :
       /\ r.nodeId \in DeviceIds
       /\ r.payload.current = ValueOf(r.nodeId)
       /\ r.meta.rawDeviceId = r.nodeId
  /\ \A n \in DeviceIds : Drained(n) => SeqsOf(n) = 1..clock[n]

\* ------------------------------------------------------------ C24

\* C24: once the ingester is quiescent for a node (its list empty, no
\* flushBatch call running), metrics:{node}.totalRecords equals the number of
\* Records written for the node, also after bulk inserts that failed wholly
\* or partially.
C24_MetricsMatchRecords ==
  \A n \in Nodes :
    (Len(queue[n]) = 0 /\ ~FlushRunning(n))
      => totalRecords[n] = Cardinality(RecordsOf(n))

\* ------------------------------------------------------------ C25

\* Sockets that identify or not, send /save frames, among them one that is
\* not JSON, and disconnect.
InitMalformed ==
  /\ InitGatewayState
  /\ queue = [n \in Nodes |-> <<>>]
  /\ clock = [n \in Nodes |-> 0]
  /\ InitIngester
  /\ env = [Budget(0, 0, 1, MaxIdentify, 0, Sockets, {"A", NoId})
              EXCEPT !.malformed = 1]

NextMalformed ==
  \/ \E s \in Sockets : RegistryStep(s)
  \/ \E s \in Sockets : SaveMalformed(s)
  \/ ExecResolved

SpecMalformed == InitMalformed /\ [][NextMalformed]_vars

\* C25: a /save frame whose string payload is not JSON is dropped and the
\* connection kept, on an identified node socket and on a socket not yet
\* identified alike: no Reading is buffered or broadcast, registry and
\* buffers are unchanged, and the error does not leave the frame handler.
C25_MalformedFrameDropped ==
  [][env'.malformed < env.malformed =>
       /\ nodeBuffers' = nodeBuffers
       /\ live' = live
       /\ inflight' = inflight
       /\ connectedNodes' = connectedNodes
       /\ \A s \in Sockets : sockets'[s].conn = sockets[s].conn
       /\ unhandled' = unhandled]_vars

\* ------------------------------------------------------------ C26

\* C26: at most one processNodeQueue loop runs per node, and it runs exactly
\* while the node is in processQueues: a scan starts a loop only for a node
\* that is not in processQueues, and the marker is removed only by the loop
\* itself, in the step in which it ends on an empty list.
C26_OneLoopPerNode ==
  [][\A n \in Nodes :
       /\ loops'[n] <= 1
       /\ loops'[n] = 1 <=> n \in processQueues'
       /\ loops'[n] > loops[n] => n \notin processQueues
       /\ (n \in processQueues /\ n \notin processQueues')
            => /\ loops'[n] = loops[n] - 1
               /\ loopPc[n] = "llen" /\ loopPc'[n] = "off"
               /\ Len(queue[n]) = 0]_vars

\* The node's loop is asleep while a timer's flushBatch runs and entries
\* wait in the list: a scan tick finds the key and starts nothing.
C26_Witness ==
  /\ loops["A"] = 1
  /\ loopPc["A"] = "sleep"
  /\ Len(queue["A"]) > 0
  /\ FlushRunning("A")
  /\ "A" \in processQueues

\* ------------------------------------------------------------ C27

\* C27: at most one flushBatch call consumes a node's list at any time
\* (size-triggered, timer-triggered and shutdown flushes never overlap), so
\* every batch is a run of consecutive entries of the list.
C27_OneFlushPerNode ==
  \A n \in Nodes :
    /\ Cardinality({f \in FlushIds : flushes[n][f].pc # "idle"}) <= 1
    /\ \A f \in FlushIds : ContiguousRun(flushes[n][f].batch)

\* ------------------------------------------------------------ C28

\* Flush timers of a node that are set and have neither fired nor been
\* cleared.
ArmedTimers(n) == (IF flushTimers[n] = "armed" THEN 1 ELSE 0) + strayTimers[n]

\* C28: the time-based flush is a cancellable one-shot: at most one flush
\* timer is armed for a node at any time, and none remains armed once a
\* size-triggered flush has run or the loop has ended on an empty list.
C28_OneShotTimer ==
  [][\A n \in Nodes :
       /\ ArmedTimers(n)' <= 1
       /\ (flushes[n][LoopFlush].pc # "idle"
             /\ flushes'[n][LoopFlush].pc = "idle") => ArmedTimers(n)' = 0
       /\ loopPc'[n] = "off" => ArmedTimers(n)' = 0]_vars

\* ------------------------------------------------------------ C29

\* The ingester with a list that also receives an entry that is not JSON;
\* the stores answer.
InitPoison ==
  /\ InitGatewayState
  /\ queue = [n \in Nodes |-> <<>>]
  /\ clock = [n \in Nodes |-> 0]
  /\ InitIngester
  /\ env = [Budget(MaxPush, 0, 0, 0, 0, {}, {}) EXCEPT !.malformed = 1]

NextPoison ==
  \/ Scan
  \/ IngesterStep("A")
  \/ \E k \in 1..BUFFER_SIZE : Rpush("A", k)
  \/ RpushMalformed("A")

SpecPoison == InitPoison /\ [][NextPoison]_vars

\* C29: when a popped entry does not parse only that entry is dropped: once
\* the list is consumed every well-formed entry is a Record, and no seq was
\* allocated for the malformed one.
C29_OnlyMalformedDropped ==
  (Len(queue["A"]) = 0 /\ ~FlushRunning("A"))
    => /\ \A k \in 1..clock["A"] : Persisted("A", k)
       /\ counters["A"] = clock["A"]

\* ------------------------------------------------------------ C30

\* A bulk insert of node n fails in this step.
InsertFails(n) ==
  /\ env'.insertFails < env.insertFails
  /\ \E f \in FlushIds :
       flushes[n][f].pc = "insert" /\ flushes'[n][f] # flushes[n][f]

C31_BufferBounded ==
  \A n \in DOMAIN nodeBuffers : Len(nodeBuffers[n]) <= BUFFER_SIZE

\* ------------------------------------------------------------ C32

\* The Reading was broadcast as data:live before this step.
WasLive(nodeId, ts) == \E l \in live : l.nodeId = nodeId /\ l.ts = ts

\* C32: the data:live broadcast of a Reading comes before its append to the
\* durable queue, which comes before its insert: whatever a step leaves in a
\* pipeline, in a list or in the store was broadcast before that step or, for
\* a pipeline, by the handler that starts it.
C32_BroadcastFirst ==
  [][/\ \A i \in 1..Len(inflight') : \A j \in 1..Len(inflight'[i].items) :
          \E l \in live' : /\ l.nodeId = Parse(inflight'[i].items[j]).nodeId
                           /\ l.ts = Parse(inflight'[i].items[j]).ts
     /\ \A n \in Nodes : \A i \in 1..Len(queue'[n]) :
          WasLive(Parse(queue'[n][i]).nodeId, Parse(queue'[n][i]).ts)
     /\ \A r \in records' :
          /\ WasLive(r.nodeId, r.ts)
          /\ \/ r \in records
             \/ \E f \in FlushIds :
                  \E i \in 1..Len(flushes[r.nodeId][f].batch) :
                    flushes[r.nodeId][f].batch[i].ts = r.ts]_vars

\* A Reading that was broadcast, appended and popped is a Record.
C32_Witness ==
  \E r \in records : r.seq = 1 /\ WasLive(r.nodeId, r.ts)

\* ------------------------------------------------------------ C33

\* C33: registering a node for a nodeId that already has Readings in its
\* buffer (a repeated identify, or a reconnect on a new socket before the old
\* socket's disconnect) does not discard them: after the step each of them is
\* still in the buffer or in a pipeline to the durable queue.
C33_RegistrationKeepsBuffer ==
  [][\A n \in Nodes :
       (announced'[n].connected > announced[n].connected
          /\ Has(nodeBuffers, n))
         => \A i \in 1..Len(nodeBuffers[n]) :
              \/ /\ Has(nodeBuffers', n)
                 /\ \E j \in 1..Len(nodeBuffers'[n]) :
                      nodeBuffers'[n][j] = nodeBuffers[n][i]
              \/ \E p \in 1..Len(inflight') :
                   /\ inflight'[p].nodeId = n
                   /\ \E j \in 1..Len(inflight'[p].items) :
                        Parse(inflight'[p].items[j]).ts = nodeBuffers[n][i].ts
    ]_vars

\* ------------------------------------------------------------ C34

\* The socket the registry names for the node, if any, is open and carries
\* the node's id.
RegisteredOpen(g, nodeId) ==
  \E i \in 1..Len(g.connectedNodes) :
    /\ g.connectedNodes[i].nodeId = nodeId
    /\ g.sockets[g.connectedNodes[i].socketId].conn = "open"
    /\ g.sockets[g.connectedNodes[i].socketId].nodeId = nodeId

\* C34: every Reading accepted from a /save frame is buffered under the
\* nodeId its socket is registered as, so that after the frame every key of
\* the buffer map has a registry entry whose socket's disconnect will flush
\* it, also when the payload's deviceId differs from the registered nodeId.
C34_BufferedUnderRegisteredId ==
  [][frames' > frames =>
       /\ \A l \in live' \ live :
            /\ Has(nodeBuffers', l.nodeId)
            /\ RegisteredOpen(Gateway', l.nodeId)
       /\ \A k \in DOMAIN nodeBuffers' :
            nodeBuffers'[k] # <<>> => RegHas(connectedNodes', k)]_vars

====
